---- MODULE Spec2Model ----
(***************************************************************************)
(* One execution of the cdn77 command line client: CLI parsing, token      *)
(* resolution, dispatch in main, the command handler (parameter            *)
(* normalisation, the single HTTP request, status-code routing, response   *)
(* decoding) and the process exit code.                                    *)
(*                                                                         *)
(* Strings whose characters matter (path lists, id lists, date-times) are  *)
(* sequences of one-character strings.  Option<T> is a sequence of length  *)
(* 0 (None) or 1 (Some).                                                   *)
(***************************************************************************)
EXTENDS Integers, Sequences, FiniteSets, TLC

VARIABLES pc, cmd, args, env_token, selector, client, requests, response, bodyRead, out, exitCode,
          steps, result, build

vars == <<pc, cmd, args, env_token, selector, client, requests, response, bodyRead, out, exitCode,
          steps, result, build>>

(***************************************************************************)
(* Bounds                                                                  *)
(***************************************************************************)
MaxPathLen == 3
MaxResourceId == 2

(***************************************************************************)
(* Exit codes                                                              *)
(***************************************************************************)
EXIT_CODE_SUCCESS == 0
EXIT_CODE_INVALID_INPUT == 2
EXIT_CODE_API_EXPECTED_ERROR == 3
EXIT_CODE_API_UNEXPECTED_ERROR == 4
EXIT_CODE_PANIC == 101

None == <<>>
Some(v) == <<v>>
IsSome(o) == Len(o) = 1
Unwrap(o) == o[1]

(***************************************************************************)
(* Character-level string functions of the Rust standard library           *)
(***************************************************************************)
\* char::is_whitespace: the characters of the Unicode White_Space property.
\* A character is a string of one character where the language can write it,
\* and the name of its code point ("U+00A0") where it cannot.
IsWhitespace(ch) ==
    ch \in {"\t", "\n", "U+000B", "\f", "\r", " ", "U+0085", "U+00A0", "U+1680",
            "U+2000", "U+2001", "U+2002", "U+2003", "U+2004", "U+2005", "U+2006", "U+2007",
            "U+2008", "U+2009", "U+200A", "U+2028", "U+2029", "U+202F", "U+205F", "U+3000"}
IsDigit(ch) == ch \in {"0", "1", "2", "3", "4", "5", "6", "7", "8", "9"}

DigitValue(ch) ==
    CASE ch = "0" -> 0 [] ch = "1" -> 1 [] ch = "2" -> 2 [] ch = "3" -> 3 [] ch = "4" -> 4
      [] ch = "5" -> 5 [] ch = "6" -> 6 [] ch = "7" -> 7 [] ch = "8" -> 8 [] ch = "9" -> 9

\* str::split(sep): the segments between separators; "" gives one empty segment
RECURSIVE SplitFrom(_, _, _)
SplitFrom(s, sep, cur) ==
    IF s = <<>> THEN <<cur>>
    ELSE IF Head(s) = sep THEN <<cur>> \o SplitFrom(Tail(s), sep, <<>>)
    ELSE SplitFrom(Tail(s), sep, Append(cur, Head(s)))

Split(s, sep) == SplitFrom(s, sep, <<>>)

RECURSIVE TrimStart(_)
TrimStart(s) ==
    IF s # <<>> /\ IsWhitespace(Head(s)) THEN TrimStart(Tail(s)) ELSE s

RECURSIVE TrimEnd(_)
TrimEnd(s) ==
    IF s # <<>> /\ IsWhitespace(s[Len(s)]) THEN TrimEnd(SubSeq(s, 1, Len(s) - 1)) ELSE s

\* str::trim
Trim(s) == TrimEnd(TrimStart(s))

\* Iterator::filter(|s| !s.is_empty())
FilterNonEmpty(segs) == SelectSeq(segs, LAMBDA seg : seg # <<>>)

\* Iterator::map(|r| r.trim())
RECURSIVE MapTrim(_)
MapTrim(segs) ==
    IF segs = <<>> THEN <<>> ELSE <<Trim(Head(segs))>> \o MapTrim(Tail(segs))

RECURSIVE DigitsValue(_, _)
DigitsValue(s, acc) ==
    IF s = <<>> THEN acc ELSE DigitsValue(Tail(s), acc * 10 + DigitValue(Head(s)))

AllDigits(s) == \A i \in 1..Len(s) : IsDigit(s[i])

\* the digits of u64::MAX, 18446744073709551615
U64_MAX_DIGITS ==
    <<"1", "8", "4", "4", "6", "7", "4", "4", "0", "7", "3", "7", "0", "9", "5", "5", "1", "6", "1", "5">>

RECURSIVE StripLeadingZeros(_)
StripLeadingZeros(s) ==
    IF s # <<>> /\ Head(s) = "0" THEN StripLeadingZeros(Tail(s)) ELSE s

\* of two digit strings of one length, the first is the greater number
RECURSIVE DigitsGreater(_, _)
DigitsGreater(a, b) ==
    IF a = <<>> THEN FALSE
    ELSE IF Head(a) # Head(b) THEN DigitValue(Head(a)) > DigitValue(Head(b))
    ELSE DigitsGreater(Tail(a), Tail(b))

\* the number the digits write does not fit 64 bits: PosOverflow
ExceedsU64(digits) ==
    \/ Len(StripLeadingZeros(digits)) > Len(U64_MAX_DIGITS)
    \/ /\ Len(StripLeadingZeros(digits)) = Len(U64_MAX_DIGITS)
       /\ DigitsGreater(StripLeadingZeros(digits), U64_MAX_DIGITS)

ParseDigitsU64(digits) ==
    IF digits # <<>> /\ AllDigits(digits) /\ ~ExceedsU64(digits)
    THEN Some(DigitsValue(digits, 0))
    ELSE None

\* str::parse::<u64>: an optional '+', then at least one digit, the number
\* at most u64::MAX
ParseU64(s) == ParseDigitsU64(IF s # <<>> /\ Head(s) = "+" THEN Tail(s) ELSE s)

(***************************************************************************)
(* chrono: NaiveDateTime::parse_from_str(input, "%Y-%m-%d %H:%M")          *)
(***************************************************************************)
RECURSIVE LeadingDigits(_, _)
LeadingDigits(s, max) ==
    IF max > 0 /\ s # <<>> /\ IsDigit(Head(s)) THEN 1 + LeadingDigits(Tail(s), max - 1) ELSE 0

\* scan::number(s, 1, max): between 1 and max leading digits
TakeDigits(s, n) ==
    [ok |-> n >= 1, value |-> DigitsValue(SubSeq(s, 1, n), 0), rest |-> SubSeq(s, n + 1, Len(s))]

ScanNumber(s, max) == TakeDigits(s, LeadingDigits(s, max))

\* Item::Numeric: leading whitespace is skipped; a signed field takes an
\* explicit sign followed by any number of digits
Negated(r) == [r EXCEPT !.value = 0 - r.value]

ScanSigned(s, width, signed) ==
    IF signed /\ s # <<>> /\ Head(s) = "-" THEN Negated(ScanNumber(Tail(s), Len(s)))
    ELSE IF signed /\ s # <<>> /\ Head(s) = "+" THEN ScanNumber(Tail(s), Len(s))
    ELSE ScanNumber(s, width)

ScanNumeric(s, width, signed) == ScanSigned(TrimStart(s), width, signed)

Numeric(width, signed) == [kind |-> "numeric", ch |-> "", width |-> width, signed |-> signed]
Literal(ch) == [kind |-> "literal", ch |-> ch, width |-> 0, signed |-> FALSE]
Space == [kind |-> "space", ch |-> " ", width |-> 0, signed |-> FALSE]

\* the items of "%Y-%m-%d %H:%M"
DateTimeFormat ==
    <<Numeric(4, TRUE), Literal("-"), Numeric(2, FALSE), Literal("-"), Numeric(2, FALSE),
      Space, Numeric(2, FALSE), Literal(":"), Numeric(2, FALSE)>>

\* format::parse: the items consume the input from the left and nothing may
\* be left over; the result is the numeric fields in order, or None
RECURSIVE ParseItems(_, _, _)

ParseNumericItem(rest, r, fields) ==
    IF r.ok THEN ParseItems(rest, r.rest, Append(fields, r.value)) ELSE None

ParseItem(item, rest, s, fields) ==
    CASE item.kind = "literal" ->
            IF s # <<>> /\ Head(s) = item.ch THEN ParseItems(rest, Tail(s), fields) ELSE None
      [] item.kind = "space" -> ParseItems(rest, TrimStart(s), fields)
      [] item.kind = "numeric" -> ParseNumericItem(rest, ScanNumeric(s, item.width, item.signed), fields)

ParseItems(items, s, fields) ==
    IF items = <<>> THEN (IF s = <<>> THEN Some(fields) ELSE None)
    ELSE ParseItem(Head(items), Tail(items), s, fields)

IsLeapYear(y) == (y % 4 = 0 /\ y % 100 # 0) \/ y % 400 = 0

DaysInMonth(y, m) ==
    IF m = 2 THEN (IF IsLeapYear(y) THEN 29 ELSE 28)
    ELSE IF m \in {4, 6, 9, 11} THEN 30 ELSE 31

\* NaiveDate::from_ymd_opt and NaiveTime::from_hms_opt
ValidDateTime(y, m, d, h, mi) ==
    /\ y >= 0 - (build.chrono_max_year + 1) /\ y <= build.chrono_max_year
    /\ m >= 1 /\ m <= 12
    /\ d >= 1 /\ d <= DaysInMonth(y, m)
    /\ h <= 23
    /\ mi <= 59

ResolveDateTime(f) ==
    IF ValidDateTime(f[1], f[2], f[3], f[4], f[5])
    THEN Some([year |-> f[1], month |-> f[2], day |-> f[3], hour |-> f[4], minute |-> f[5]])
    ELSE None

ResolveParsed(parsed) == IF parsed = None THEN None ELSE ResolveDateTime(Unwrap(parsed))

ParseDateTime(input) == ResolveParsed(ParseItems(DateTimeFormat, input, <<>>))

\* days since 1970-01-01 of a proleptic Gregorian date
DayOfYear(m, d) == (153 * (IF m > 2 THEN m - 3 ELSE m + 9) + 2) \div 5 + d - 1

DayOfEra(yoe, doy) == yoe * 365 + yoe \div 4 - yoe \div 100 + doy

DaysOf(y, era, doy) == era * 146097 + DayOfEra(y - era * 400, doy) - 719468

DaysFromMarchYear(y, m, d) == DaysOf(y, y \div 400, DayOfYear(m, d))

DaysFromCivil(y, m, d) == DaysFromMarchYear(IF m <= 2 THEN y - 1 ELSE y, m, d)

\* NaiveDateTime::timestamp
Timestamp(dt) ==
    DaysFromCivil(dt.year, dt.month, dt.day) * 86400 + dt.hour * 3600 + dt.minute * 60


(***************************************************************************)
(* Parameter normalisation                                                 *)
(***************************************************************************)
RECURSIVE MapParseU64(_)
MapParseU64(segs) ==
    IF segs = <<>> THEN <<>> ELSE <<ParseU64(Head(segs))>> \o MapParseU64(Tail(segs))

RECURSIVE MapUnwrap(_)
MapUnwrap(opts) ==
    IF opts = <<>> THEN <<>> ELSE <<Unwrap(Head(opts))>> \o MapUnwrap(Tail(opts))

\* panicked: the expect() on a malformed segment fired; value: the Option returned
CollectIds(parsed) ==
    IF \E i \in 1..Len(parsed) : parsed[i] = None
    THEN [panicked |-> TRUE, value |-> None]
    ELSE [panicked |-> FALSE, value |-> Some(MapUnwrap(parsed))]

\* parse_resource_ids_optional without the trim of the segments
parse_resource_ids_optional_untrimmed(input) ==
    IF IsSome(input)
    THEN CollectIds(MapParseU64(FilterNonEmpty(Split(Unwrap(input), ","))))
    ELSE [panicked |-> FALSE, value |-> None]

parse_resource_ids_optional(input) ==
    IF IsSome(input)
    THEN CollectIds(MapParseU64(FilterNonEmpty(MapTrim(Split(Unwrap(input), ",")))))
    ELSE [panicked |-> FALSE, value |-> None]

parse_optional_location_ids(location_ids) ==
    IF IsSome(location_ids)
    THEN Some(FilterNonEmpty(MapTrim(Split(Unwrap(location_ids), ","))))
    ELSE None

\* None when the process exits with the caller's message
parse_date_time_or_exit(input) == ParseDateTime(input)

\* prefetch_paths without the filter on empty segments
prefetch_paths_unfiltered(paths) == Split(paths, ",")

\* the path list of command_jobs_prefetch
prefetch_paths(paths) == FilterNonEmpty(Split(paths, ","))

\* the path list of command_jobs_purge, by the rule shared with the id lists
purge_paths(paths) == FilterNonEmpty(MapTrim(Split(paths, ",")))

(***************************************************************************)
(* What a handler does before the request is sent: the lines it prints,    *)
(* and either an exit code or the request it builds.                       *)
(***************************************************************************)
Line(stream, text) == [stream |-> stream, text |-> text]

NoRequest == [method |-> "", url |-> <<>>, body |-> <<>>]

Prepared(prints, method, url, body, sendErr) ==
    [kind |-> "send", prints |-> prints, code |-> 0,
     request |-> [method |-> method, url |-> url, body |-> body], sendErr |-> sendErr]

Rejected(prints, code) ==
    [kind |-> "exit", prints |-> prints, code |-> code, request |-> NoRequest, sendErr |-> ""]

SendErrDefault == "Failed to get response HTTP request"

command_billing_get_credit_balance_prepare(a) ==
    Prepared(<<>>, "GET", <<"credit-balance">>, None, SendErrDefault)

command_storage_list_prepare(a) ==
    Prepared(<<>>, "GET", <<"storage-location">>, None, SendErrDefault)

command_storage_detail_prepare(a) ==
    Prepared(<<>>, "GET", <<"storage-location", a.storage_id>>, None, SendErrDefault)

JobTypeSegment(job_type) ==
    CASE job_type = "Prefetch" -> "prefetch"
      [] job_type = "Purge" -> "purge"
      [] job_type = "PurgeAll" -> "purge-all"

command_jobs_list_prepare(a, sel) ==
    Prepared(<<Line("stdout", "Listing jobs of type")>>, "GET",
             <<"cdn", ToString(a.resource_id), "job-log", JobTypeSegment(sel)>>, None,
             "Failed to list jobs")

command_jobs_detail_prepare(a) ==
    Prepared(<<Line("stdout", "Getting job details for job_id")>>, "GET",
             <<"cdn", ToString(a.resource_id), "job", a.job_id>>, None,
             "Failed to get job_id")

PrefetchRequest(a, paths) ==
    IF paths = <<>>
    THEN Rejected(<<Line("stderr", "Please specify at least one path")>>, EXIT_CODE_INVALID_INPUT)
    ELSE Prepared(<<Line("stdout", "Prefetching paths")>>, "POST",
                  <<"cdn", ToString(a.resource_id), "job", "prefetch">>,
                  Some([paths |-> paths, upstream_host |-> a.upstream_host]),
                  "Failed to execute purge")

command_jobs_prefetch_prepare(a) == PrefetchRequest(a, prefetch_paths(a.paths))

PurgeRequest(a, paths) ==
    IF paths = <<>>
    THEN Rejected(<<Line("stderr", "Please specify at least one path")>>, EXIT_CODE_INVALID_INPUT)
    ELSE Prepared(<<Line("stdout", "Purging paths")>>, "POST",
                  <<"cdn", ToString(a.resource_id), "job", "purge">>,
                  Some([paths |-> paths]),
                  "Failed to execute purge")

command_jobs_purge_prepare(a) == PurgeRequest(a, purge_paths(a.paths))

command_jobs_purge_all_prepare(a) ==
    Prepared(<<Line("stdout", "Purging all data in resource_id")>>, "POST",
             <<"cdn", ToString(a.resource_id), "job", "purge-all">>, None,
             "Failed to get purge-all")

\* impl Display for GetStatsType
GetStatsType_fmt(v) ==
    CASE v = "Bandwidth" -> "bandwidth"
      [] v = "Costs" -> "costs"
      [] v = "Headers" -> "headers"
      [] v = "HeadersDetail" -> "headers-details"
      [] v = "HitMiss" -> "hit-miss"
      [] v = "HitMissDetail" -> "hit-miss-detail"
      [] v = "Traffic" -> "traffic"
      [] v = "TrafficDetail" -> "traffic-detail"

\* the request body of a statistics handler
StatsBody(a, from, to, cdn_ids, location_ids, withAggregation) ==
    IF withAggregation
    THEN [from |-> from, to |-> to, cdn_ids |-> cdn_ids, location_ids |-> location_ids,
          aggregation |-> a.aggregation]
    ELSE [from |-> from, to |-> to, cdn_ids |-> cdn_ids, location_ids |-> location_ids]

\* StatsRequest with the id list looked at before the dates
StatsRequest_ids_first(a, url, withAggregation, from, to, resource_ids, location_ids) ==
    IF resource_ids.panicked
    THEN Rejected(<<Line("stderr", "At least one resource id is malformed")>>, EXIT_CODE_PANIC)
    ELSE IF from = None
    THEN Rejected(<<Line("stdout", "Start date/time is not in a correct format")>>,
                  EXIT_CODE_INVALID_INPUT)
    ELSE IF to = None
    THEN Rejected(<<Line("stdout", "End date/time is not in a correct format")>>,
                  EXIT_CODE_INVALID_INPUT)
    ELSE Prepared(<<>>, "POST", url,
                  Some(StatsBody(a, Timestamp(Unwrap(from)), Timestamp(Unwrap(to)),
                                 resource_ids.value, location_ids, withAggregation)),
                  SendErrDefault)

\* StatsRequest with a range that ends before or where it starts turned away
StatsRequest_ordered(a, url, withAggregation, from, to, resource_ids, location_ids) ==
    IF from = None
    THEN Rejected(<<Line("stdout", "Start date/time is not in a correct format")>>,
                  EXIT_CODE_INVALID_INPUT)
    ELSE IF to = None
    THEN Rejected(<<Line("stdout", "End date/time is not in a correct format")>>,
                  EXIT_CODE_INVALID_INPUT)
    ELSE IF resource_ids.panicked
    THEN Rejected(<<Line("stderr", "At least one resource id is malformed")>>, EXIT_CODE_PANIC)
    ELSE IF Timestamp(Unwrap(from)) >= Timestamp(Unwrap(to))
    THEN Rejected(<<Line("stderr", "Invalid range")>>, EXIT_CODE_INVALID_INPUT)
    ELSE Prepared(<<>>, "POST", url,
                  Some(StatsBody(a, Timestamp(Unwrap(from)), Timestamp(Unwrap(to)),
                                 resource_ids.value, location_ids, withAggregation)),
                  SendErrDefault)

StatsRequest(a, url, withAggregation, from, to, resource_ids, location_ids) ==
    IF from = None
    THEN Rejected(<<Line("stdout", "Start date/time is not in a correct format")>>,
                  EXIT_CODE_INVALID_INPUT)
    ELSE IF to = None
    THEN Rejected(<<Line("stdout", "End date/time is not in a correct format")>>,
                  EXIT_CODE_INVALID_INPUT)
    ELSE IF resource_ids.panicked
    THEN Rejected(<<Line("stderr", "At least one resource id is malformed")>>, EXIT_CODE_PANIC)
    ELSE Prepared(<<>>, "POST", url,
                  Some(StatsBody(a, Timestamp(Unwrap(from)), Timestamp(Unwrap(to)),
                                 resource_ids.value, location_ids, withAggregation)),
                  SendErrDefault)

\* The part every statistics handler shares: both dates, then the id lists,
\* then the request with the epoch seconds of both dates.
StatsPrepare(a, url, withAggregation) ==
    StatsRequest(a, url, withAggregation,
                 parse_date_time_or_exit(a.from), parse_date_time_or_exit(a.to),
                 parse_resource_ids_optional(a.resource_ids),
                 parse_optional_location_ids(a.location_ids))

command_stats_get_stats_prepare(a, sel) ==
    StatsPrepare(a, <<"stats", GetStatsType_fmt(sel)>>, TRUE)

command_stats_bandwidth_95th_percentile_prepare(a) ==
    StatsPrepare(a, <<"stats", "bandwidth", "percentile">>, FALSE)

command_stats_by_resource_prepare(a, sel) ==
    StatsPrepare(a, <<"stats", "cdns", GetStatsType_fmt(sel)>>, TRUE)

command_stats_by_data_center_prepare(a, sel) ==
    StatsPrepare(a, <<"stats", "datacenters", GetStatsType_fmt(sel)>>, TRUE)

SUM_BY_RESOURCE_TYPE == {"headers", "traffic", "hit-miss", "costs"}
SUM_BY_DATA_CENTER_TYPE == {"headers", "traffic", "hit-miss", "costs"}
SUM_TYPE == {"headers", "traffic", "hit-miss", "costs"}

InvalidStatType == Rejected(<<Line("stderr", "Invalid stat type")>>, EXIT_CODE_INVALID_INPUT)

command_stats_sum_by_resource_prepare(a) ==
    IF a.stat_type \notin SUM_BY_RESOURCE_TYPE THEN InvalidStatType
    ELSE StatsPrepare(a, <<"stats", "cdns", "sum", a.stat_type>>, FALSE)

command_stats_sum_by_data_center_prepare(a) ==
    IF a.stat_type \notin SUM_BY_DATA_CENTER_TYPE THEN InvalidStatType
    ELSE StatsPrepare(a, <<"stats", "datacenters", "sum", a.stat_type>>, FALSE)

command_stats_sum_prepare(a) ==
    IF a.stat_type \notin SUM_TYPE THEN InvalidStatType
    ELSE StatsPrepare(a, <<"stats", "sum", a.stat_type>>, FALSE)


(***************************************************************************)
(* What a handler does with the status code of the response                *)
(***************************************************************************)
\* ArmDecode with the exit code of an expected API error
ArmDecode_expected_code(msg, errMsg) ==
    [kind |-> "decode", stream |-> "stdout", msg |-> msg,
     code |-> EXIT_CODE_API_EXPECTED_ERROR, errMsg |-> errMsg]

\* decode the body; print msg on success, errMsg and exit otherwise
ArmDecode(msg, errMsg) ==
    [kind |-> "decode", stream |-> "stdout", msg |-> msg,
     code |-> EXIT_CODE_API_UNEXPECTED_ERROR, errMsg |-> errMsg]

\* print and fall out of the match: the handler returns
ArmReturn(stream, msg) ==
    [kind |-> "return", stream |-> stream, msg |-> msg, code |-> EXIT_CODE_SUCCESS, errMsg |-> ""]

\* print and process::exit(code)
ArmExit(stream, msg, code) ==
    [kind |-> "exit", stream |-> stream, msg |-> msg, code |-> code, errMsg |-> ""]

\* print with the text of read_body_or_return_default_error_text, then exit
ArmExitBody(stream, msg, code) ==
    [kind |-> "exit_body", stream |-> stream, msg |-> msg, code |-> code, errMsg |-> ""]

\* handle_default_response_status_codes(response).await
ArmDefault ==
    [kind |-> "default", stream |-> "", msg |-> "", code |-> EXIT_CODE_SUCCESS, errMsg |-> ""]

DeserializeErr == "Failed to deserialize response"
PlanNotActive == "You do not have a PAYG tariff nor Monthly Plan active"

command_billing_get_credit_balance_status(status) ==
    CASE status = 200 -> ArmDecode("Current balance", DeserializeErr)
      [] status = 404 -> ArmReturn("stdout", PlanNotActive)
      [] OTHER -> ArmDefault

command_storage_list_status(status) ==
    CASE status = 200 -> ArmDecode("Found storage locations", DeserializeErr)
      [] status = 404 -> ArmReturn("stdout", PlanNotActive)
      [] OTHER -> ArmDefault

\* command_storage_detail_status with an exit in the 404 arm
command_storage_detail_status_exiting(status) ==
    CASE status = 200 -> ArmDecode("ID= Location=", DeserializeErr)
      [] status = 404 -> ArmExit("stdout", PlanNotActive, EXIT_CODE_API_EXPECTED_ERROR)
      [] OTHER -> ArmDefault

command_storage_detail_status(status) ==
    CASE status = 200 -> ArmDecode("ID= Location=", DeserializeErr)
      [] status = 404 -> ArmReturn("stdout", PlanNotActive)
      [] OTHER -> ArmDefault

\* command_jobs_list_status matching ACCEPTED instead of OK
command_jobs_list_status_accepted(status) ==
    CASE status = 202 -> ArmDecode("Found jobs", "Failed to deserialize list-jobs response")
      [] OTHER -> ArmDefault

command_jobs_list_status(status) ==
    CASE status = 200 -> ArmDecode("Found jobs", "Failed to deserialize list-jobs response")
      [] OTHER -> ArmDefault

\* command_jobs_detail_status without the process::exit in the 404 arm
command_jobs_detail_status_no_exit(status) ==
    CASE status = 200 -> ArmDecode("Found Job", "Failed to deserialize job-details response")
      [] status = 404 -> ArmReturn("stdout", "Didn't find job_id")
      [] OTHER -> ArmDefault

command_jobs_detail_status(status) ==
    CASE status = 200 -> ArmDecode("Found Job", "Failed to deserialize job-details response")
      [] status = 404 -> ArmExit("stdout", "Didn't find job_id", EXIT_CODE_API_EXPECTED_ERROR)
      [] OTHER -> ArmDefault

\* command_jobs_prefetch_status matching OK instead of ACCEPTED
command_jobs_prefetch_status_ok(status) ==
    CASE status = 200 -> ArmDecode("Successfully executed", "Failed to deserialize prefetch response")
      [] status = 404 -> ArmExit("stdout", "Cannot prefetch paths, didn't find resource_id",
                                 EXIT_CODE_API_EXPECTED_ERROR)
      [] OTHER -> ArmDefault

command_jobs_prefetch_status(status) ==
    CASE status = 202 -> ArmDecode("Successfully executed", "Failed to deserialize prefetch response")
      [] status = 404 -> ArmExit("stdout", "Cannot prefetch paths, didn't find resource_id",
                                 EXIT_CODE_API_EXPECTED_ERROR)
      [] OTHER -> ArmDefault

command_jobs_purge_status(status) ==
    CASE status = 202 -> ArmDecode("Successfully executed", "Failed to deserialize purge response")
      [] status = 404 -> ArmExitBody("stderr", "Cannot purge paths", EXIT_CODE_API_EXPECTED_ERROR)
      [] OTHER -> ArmDefault

\* command_jobs_purge_all_status without the FORBIDDEN arm
command_jobs_purge_all_status_no_forbidden(status) ==
    CASE status = 202 -> ArmDecode("Successfully executed", "Failed to deserialize purge-all response")
      [] status = 404 -> ArmExit("stderr", "Didn't find resource_id", EXIT_CODE_API_EXPECTED_ERROR)
      [] OTHER -> ArmDefault

\* command_jobs_purge_all_status with the body printed on 403
command_jobs_purge_all_status_forbidden_body(status) ==
    CASE status = 202 -> ArmDecode("Successfully executed", "Failed to deserialize purge-all response")
      [] status = 403 -> ArmExitBody("stdout", "Purging all files is disabled for resource",
                                     EXIT_CODE_API_EXPECTED_ERROR)
      [] status = 404 -> ArmExit("stderr", "Didn't find resource_id", EXIT_CODE_API_EXPECTED_ERROR)
      [] OTHER -> ArmDefault

command_jobs_purge_all_status(status) ==
    CASE status = 202 -> ArmDecode("Successfully executed", "Failed to deserialize purge-all response")
      [] status = 403 -> ArmExit("stdout", "Purging all files is disabled for resource",
                                 EXIT_CODE_API_EXPECTED_ERROR)
      [] status = 404 -> ArmExit("stderr", "Didn't find resource_id", EXIT_CODE_API_EXPECTED_ERROR)
      [] OTHER -> ArmDefault

command_stats_get_stats_status(status) ==
    CASE status = 200 -> ArmDecode("pretty-printed JSON", DeserializeErr)
      [] status = 404 -> ArmExitBody("stderr", "Could not get stats for this type without grouping",
                                     EXIT_CODE_API_EXPECTED_ERROR)
      [] OTHER -> ArmDefault

command_stats_bandwidth_95th_percentile_status(status) ==
    CASE status = 200 -> ArmDecode("Percentile", DeserializeErr)
      [] status = 404 -> ArmExitBody("stderr", "Could not get stats for this type without grouping",
                                     EXIT_CODE_API_EXPECTED_ERROR)
      [] OTHER -> ArmDefault

command_stats_by_resource_status(status) ==
    CASE status = 200 -> ArmDecode("pretty-printed JSON", DeserializeErr)
      [] status = 404 -> ArmExitBody("stderr", "Couldn't get stat type grouped by resource",
                                     EXIT_CODE_API_EXPECTED_ERROR)
      [] OTHER -> ArmDefault

command_stats_sum_by_resource_status(status) ==
    CASE status = 200 -> ArmDecode("pretty-printed JSON", DeserializeErr)
      [] status = 404 -> ArmExitBody("stderr", "Couldn't get stat sum by resource",
                                     EXIT_CODE_API_EXPECTED_ERROR)
      [] OTHER -> ArmDefault

command_stats_by_data_center_status(status) ==
    CASE status = 200 -> ArmDecode("pretty-printed JSON", DeserializeErr)
      [] status = 404 -> ArmExitBody("stderr", "Couldn't get stat type grouped by datacenter",
                                     EXIT_CODE_API_EXPECTED_ERROR)
      [] OTHER -> ArmDefault

command_stats_sum_by_data_center_status(status) ==
    CASE status = 200 -> ArmDecode("pretty-printed JSON", DeserializeErr)
      [] status = 404 -> ArmExitBody("stderr", "Couldn't get stat sum by data center",
                                     EXIT_CODE_API_EXPECTED_ERROR)
      [] OTHER -> ArmDefault

command_stats_sum_status(status) ==
    CASE status = 200 -> ArmDecode("Sum", DeserializeErr)
      [] status = 404 -> ArmExitBody("stderr", "Couldn't get stats sum", EXIT_CODE_API_EXPECTED_ERROR)
      [] OTHER -> ArmDefault

\* handle_default_response_status_codes with the 405 arm exiting like the 404 arm
handle_default_response_status_codes_405(status) ==
    CASE status = 401 -> ArmExit("stderr", "Got 401/unauthorized. Please check your credentials.",
                                 EXIT_CODE_API_EXPECTED_ERROR)
      [] status = 403 -> ArmExit("stderr", "Got 403/forbidden. Please check your credentials or the API operation args.",
                                 EXIT_CODE_API_EXPECTED_ERROR)
      [] status = 404 -> ArmExit("stdout", "The requested resource was not found. Please validate your args.",
                                 EXIT_CODE_API_EXPECTED_ERROR)
      [] status = 405 -> ArmExit("stderr", "Received 405/MethodNotAllowed.",
                                 EXIT_CODE_API_EXPECTED_ERROR)
      [] status = 422 -> ArmExit("stderr", "Received 422/UnprocessableEntity.",
                                 EXIT_CODE_API_UNEXPECTED_ERROR)
      [] OTHER -> ArmExitBody("stderr", "Received unexpected/unknown status code",
                              EXIT_CODE_API_UNEXPECTED_ERROR)

\* The shared interpreter: every arm prints and exits; only the last reads the body.
handle_default_response_status_codes(status) ==
    CASE status = 401 -> ArmExit("stderr", "Got 401/unauthorized. Please check your credentials.",
                                 EXIT_CODE_API_EXPECTED_ERROR)
      [] status = 403 -> ArmExit("stderr", "Got 403/forbidden. Please check your credentials or the API operation args.",
                                 EXIT_CODE_API_EXPECTED_ERROR)
      [] status = 404 -> ArmExit("stdout", "The requested resource was not found. Please validate your args.",
                                 EXIT_CODE_API_EXPECTED_ERROR)
      [] status = 405 -> ArmExit("stderr", "Received 405/MethodNotAllowed.",
                                 EXIT_CODE_API_UNEXPECTED_ERROR)
      [] status = 422 -> ArmExit("stderr", "Received 422/UnprocessableEntity.",
                                 EXIT_CODE_API_UNEXPECTED_ERROR)
      [] OTHER -> ArmExitBody("stderr", "Received unexpected/unknown status code",
                              EXIT_CODE_API_UNEXPECTED_ERROR)

\* the text printed after a body read: the body, or the fallback text
read_body_or_return_default_error_text(body) ==
    IF body = "unreadable" THEN "default error text" ELSE "response body"

(***************************************************************************)
(* Commands and their inputs                                               *)
(***************************************************************************)
\* the subcommands main dispatches to a handler
MainCommands ==
    {"command_billing_get_credit_balance",
     "command_jobs_list", "command_jobs_detail", "command_jobs_prefetch",
     "command_jobs_purge", "command_jobs_purge_all",
     "command_stats_get_stats", "command_stats_bandwidth_95th_percentile",
     "command_storage_list", "command_storage_detail"}

\* a subcommand main answers with a panic
UnimplementedCommands == {"resources_list"}

\* public handlers main never dispatches to; they are entered by a direct call
DirectHandlers ==
    {"command_stats_by_resource", "command_stats_sum_by_resource",
     "command_stats_by_data_center", "command_stats_sum_by_data_center",
     "command_stats_sum"}

StatisticsCommands ==
    {"command_stats_get_stats", "command_stats_bandwidth_95th_percentile"} \cup DirectHandlers

HandlerPrepare(c, a, sel) ==
    CASE c = "command_billing_get_credit_balance" -> command_billing_get_credit_balance_prepare(a)
      [] c = "command_jobs_list" -> command_jobs_list_prepare(a, sel)
      [] c = "command_jobs_detail" -> command_jobs_detail_prepare(a)
      [] c = "command_jobs_prefetch" -> command_jobs_prefetch_prepare(a)
      [] c = "command_jobs_purge" -> command_jobs_purge_prepare(a)
      [] c = "command_jobs_purge_all" -> command_jobs_purge_all_prepare(a)
      [] c = "command_stats_get_stats" -> command_stats_get_stats_prepare(a, sel)
      [] c = "command_stats_bandwidth_95th_percentile" -> command_stats_bandwidth_95th_percentile_prepare(a)
      [] c = "command_stats_by_resource" -> command_stats_by_resource_prepare(a, sel)
      [] c = "command_stats_sum_by_resource" -> command_stats_sum_by_resource_prepare(a)
      [] c = "command_stats_by_data_center" -> command_stats_by_data_center_prepare(a, sel)
      [] c = "command_stats_sum_by_data_center" -> command_stats_sum_by_data_center_prepare(a)
      [] c = "command_stats_sum" -> command_stats_sum_prepare(a)
      [] c = "command_storage_list" -> command_storage_list_prepare(a)
      [] c = "command_storage_detail" -> command_storage_detail_prepare(a)

HandlerStatus(c, status) ==
    CASE c = "command_billing_get_credit_balance" -> command_billing_get_credit_balance_status(status)
      [] c = "command_jobs_list" -> command_jobs_list_status(status)
      [] c = "command_jobs_detail" -> command_jobs_detail_status(status)
      [] c = "command_jobs_prefetch" -> command_jobs_prefetch_status(status)
      [] c = "command_jobs_purge" -> command_jobs_purge_status(status)
      [] c = "command_jobs_purge_all" -> command_jobs_purge_all_status(status)
      [] c = "command_stats_get_stats" -> command_stats_get_stats_status(status)
      [] c = "command_stats_bandwidth_95th_percentile" -> command_stats_bandwidth_95th_percentile_status(status)
      [] c = "command_stats_by_resource" -> command_stats_by_resource_status(status)
      [] c = "command_stats_sum_by_resource" -> command_stats_sum_by_resource_status(status)
      [] c = "command_stats_by_data_center" -> command_stats_by_data_center_status(status)
      [] c = "command_stats_sum_by_data_center" -> command_stats_sum_by_data_center_status(status)
      [] c = "command_stats_sum" -> command_stats_sum_status(status)
      [] c = "command_storage_list" -> command_storage_list_status(status)
      [] c = "command_storage_detail" -> command_storage_detail_status(status)


\* impl FromStr for JobType
JobType_from_str(s) ==
    CASE s = "prefetch" -> Some("Prefetch")
      [] s = "purge" -> Some("Purge")
      [] s = "purge-all" -> Some("PurgeAll")
      [] OTHER -> None

\* impl FromStr for GetStatsType
GetStatsType_from_str(s) ==
    CASE s = "bandwidth" -> Some("Bandwidth")
      [] s = "costs" -> Some("Costs")
      [] s = "headers" -> Some("Headers")
      [] s = "headers-detail" -> Some("HeadersDetail")
      [] s = "hit-miss" -> Some("HitMiss")
      [] s = "hit-miss-detail" -> Some("HitMissDetail")
      [] s = "traffic" -> Some("Traffic")
      [] s = "traffic-detail" -> Some("TrafficDetail")
      [] OTHER -> None

JobTypes == {"Prefetch", "Purge", "PurgeAll"}

GetStatsTypes ==
    {"Bandwidth", "Costs", "Headers", "HeadersDetail", "HitMiss", "HitMissDetail",
     "Traffic", "TrafficDetail"}

RECURSIVE SeqsUpTo(_, _)
SeqsUpTo(chars, n) ==
    IF n = 0 THEN {<<>>}
    ELSE LET shorter == SeqsUpTo(chars, n - 1)
         IN  shorter \cup {Append(q, ch) : q \in shorter, ch \in chars}

PathChars == {"a", ",", " "}
PathInputs == SeqsUpTo(PathChars, MaxPathLen)

JobTypeInputs == {"prefetch", "purge", "purge-all", "bogus"}

StatTypeInputs ==
    {"bandwidth", "costs", "headers", "headers-detail", "headers-details", "hit-miss",
     "hit-miss-detail", "traffic", "traffic-detail", "bogus"}

SumStatTypeInputs == {"headers", "traffic", "hit-miss", "costs", "bandwidth"}

DateA == <<"2", "0", "2", "2", "-", "0", "1", "-", "0", "1", " ", "0", "0", ":", "0", "0">>
DateB == <<"2", "0", "2", "2", "-", "0", "1", "-", "0", "2", " ", "1", "0", ":", "3", "0">>

\* a date in another format
DateSlashed == <<"2", "0", "2", "2", "/", "0", "1", "/", "0", "1", " ", "0", "0", ":", "0", "0">>

\* the first day of the year 262143
DateYearEdge ==
    <<"+", "2", "6", "2", "1", "4", "3", "-", "0", "1", "-", "0", "1", " ", "0", "0", ":", "0", "0">>

DateInputs ==
    {DateA,
     <<"2", "0", "2", "2", "-", "0", "1", "-", "0", "1", "\n", "0", "0", ":", "0", "0">>,
     DateB,
     <<"2", "0", "2", "2", "-", "1", "3", "-", "0", "1", " ", "0", "0", ":", "0", "0">>,
     DateSlashed}

\* u64::MAX + 1, 18446744073709551616
OverflowingId ==
    <<"1", "8", "4", "4", "6", "7", "4", "4", "0", "7", "3", "7", "0", "9", "5", "5", "1", "6", "1", "6">>

IdListInputs ==
    {None,
     Some(OverflowingId),
     Some(<<"1", "\n", ",", "U+00A0", "2">>),
     Some(<<"1", ",", "2">>),
     Some(<<" ", "1", " ", ",", ",", "2">>),
     Some(<<"2", ",", "2">>),
     Some(<<>>),
     Some(<<"1", ",", "x">>)}

LocationListInputs == {None, Some(<<"a", ",", " ", ",", "b">>)}

AggregationInputs == {None, Some("1-h")}
UpstreamHostInputs == {None, Some("origin.example")}
\* tokens are strings of characters: one of the flag, one of the variable,
\* and some holding a character no header value may hold
FlagToken == <<"f", "l", "a", "g">>
EnvToken == <<"e", "n", "v">>

TokenFlagInputs ==
    {None, Some(FlagToken), Some(<<"f", "\n", "g">>), Some(<<"f", "U+007F">>), Some(<<"f", "\t", "g">>)}
TokenEnvInputs == {None, Some(EnvToken), Some(<<"e", "\r">>)}
ResourceIdInputs == 1..MaxResourceId

StatusCodes == {200, 202, 401, 403, 404, 405, 422, 500}

\* valid: JSON of the shape the command expects; malformed: text that does not
\* decode into it; unreadable: reading the body fails
\* a body that decodes into the handler's type, one that decodes and holds a
\* credit_expires_at no NaiveDateTime can hold, one that does not decode, and
\* one that cannot be read
Bodies == {"valid", "expiry_out_of_range", "malformed", "unreadable"}

BodyDecodes(body) == body \in {"valid", "expiry_out_of_range"}

Responses == [status : StatusCodes, body : Bodies]

DefaultArgs ==
    [api_token |-> None, resource_id |-> 0, job_type |-> "", job_id |-> "", paths |-> <<>>,
     upstream_host |-> None, stat_type |-> "", from |-> <<>>, to |-> <<>>,
     resource_ids |-> None, location_ids |-> None, aggregation |-> None, storage_id |-> ""]

\* One well-formed set of arguments per subcommand.  The inputs of a run are
\* this set with one argument (or the pair of dates) varied over its input set.
BaseArgs(c) ==
    CASE c \in {"command_billing_get_credit_balance", "command_storage_list", "resources_list"} ->
            DefaultArgs
      [] c = "command_storage_detail" -> [DefaultArgs EXCEPT !.storage_id = "storage-1"]
      [] c = "command_jobs_list" -> [DefaultArgs EXCEPT !.resource_id = 1, !.job_type = "prefetch"]
      [] c = "command_jobs_detail" -> [DefaultArgs EXCEPT !.resource_id = 1, !.job_id = "job-1"]
      [] c \in {"command_jobs_prefetch", "command_jobs_purge"} ->
            [DefaultArgs EXCEPT !.resource_id = 1, !.paths = <<"a">>]
      [] c = "command_jobs_purge_all" -> [DefaultArgs EXCEPT !.resource_id = 1]
      [] c \in {"command_stats_sum_by_resource", "command_stats_sum_by_data_center", "command_stats_sum"} ->
            [DefaultArgs EXCEPT !.stat_type = "headers", !.from = DateA, !.to = DateB]
      [] c = "command_stats_get_stats" ->
            [DefaultArgs EXCEPT !.stat_type = "bandwidth", !.from = DateA, !.to = DateB]
      [] OTHER -> [DefaultArgs EXCEPT !.from = DateA, !.to = DateB]

Vary(a, field, values) == {[a EXCEPT ![field] = v] : v \in values}

StatsArgs(b) ==
    {[b EXCEPT !.from = f, !.to = t] : f \in DateInputs, t \in DateInputs}
        \cup Vary(b, "resource_ids", IdListInputs)
        \cup Vary(b, "location_ids", LocationListInputs)
        \cup {[b EXCEPT !.to = DateSlashed, !.resource_ids = Some(<<"1", ",", "x">>)]}
        \cup {[b EXCEPT !.from = DateYearEdge, !.to = DateSlashed]}

\* the arguments of a subcommand, as struct CliOpts declares them
CommandArgs(c) ==
    LET b == BaseArgs(c)
    IN  CASE c = "command_jobs_list" ->
                Vary(b, "resource_id", ResourceIdInputs) \cup Vary(b, "job_type", JobTypeInputs)
          [] c \in {"command_jobs_detail", "command_jobs_purge_all"} ->
                Vary(b, "resource_id", ResourceIdInputs)
          [] c = "command_jobs_prefetch" ->
                Vary(b, "resource_id", ResourceIdInputs) \cup Vary(b, "paths", PathInputs)
                    \cup Vary(b, "upstream_host", UpstreamHostInputs)
          [] c = "command_jobs_purge" ->
                Vary(b, "resource_id", ResourceIdInputs) \cup Vary(b, "paths", PathInputs)
          [] c = "command_stats_get_stats" ->
                StatsArgs(b) \cup Vary(b, "stat_type", StatTypeInputs)
                    \cup Vary(b, "aggregation", AggregationInputs)
          [] c = "command_stats_bandwidth_95th_percentile" -> StatsArgs(b)
          [] c \in {"command_stats_by_resource", "command_stats_by_data_center"} ->
                StatsArgs(b) \cup Vary(b, "aggregation", AggregationInputs)
          [] c \in {"command_stats_sum_by_resource", "command_stats_sum_by_data_center",
                    "command_stats_sum"} ->
                StatsArgs(b) \cup Vary(b, "stat_type", SumStatTypeInputs)
                    \cup {[b EXCEPT !.stat_type = "bandwidth", !.from = DateSlashed]}
          [] OTHER -> {b}

\* the token flag and the CDN77_API_TOKEN variable; the usual setup has only
\* the variable
TokenInputs == [flag : TokenFlagInputs, env : TokenEnvInputs]
UsualTokens == [flag |-> None, env |-> Some(EnvToken)]

(***************************************************************************)
(* The state machine                                                       *)
(***************************************************************************)
\* an execution of the binary, from the start of main
InitMain ==
    /\ cmd \in MainCommands \cup UnimplementedCommands
    /\ \E a \in CommandArgs(cmd), t \in TokenInputs :
          /\ a = BaseArgs(cmd) \/ t = UsualTokens
          /\ args = [a EXCEPT !.api_token = t.flag]
          /\ env_token = t.env
    /\ pc = "cli_parse"
    /\ selector = ""
    /\ client = None

\* a direct call of a handler main does not reach, with a client already built
InitDirect ==
    /\ cmd \in DirectHandlers
    /\ args \in CommandArgs(cmd)
    /\ env_token = None
    /\ pc = "handler"
    /\ selector \in (IF cmd \in {"command_stats_by_resource", "command_stats_by_data_center"}
                     THEN (IF args = BaseArgs(cmd) THEN GetStatsTypes ELSE {"Bandwidth"})
                     ELSE {""})
    /\ client = Some(<<"Bearer", <<"c", "a", "l", "l", "e", "r">>>>)

\* what a build of the program is free in: debug assertions on or off, and a
\* chrono 0.4 whose years end at 262143 (older releases) or 262142 (newer)
Builds == [debug_assertions : BOOLEAN, chrono_max_year : {262142, 262143}]

Init ==
    /\ InitMain \/ InitDirect
    /\ requests = <<>>
    /\ response = None
    /\ bodyRead = FALSE
    /\ out = <<>>
    /\ exitCode = None
    /\ steps = <<>>
    /\ result = None
    /\ build \in Builds

\* process::exit(code), or the exit of a panicking main thread
Exit(code) ==
    /\ pc' = "exited"
    /\ exitCode' = Some(code)

\* CliOpts::parse(): clap converts the selector arguments with FromStr and
\* ends the process with its usage error when the conversion fails
\* resource_id and job_id of `jobs detail` share the short option -i: clap's
\* debug assertions panic when they build that subcommand
CliParsed(parsed) ==
    IF build.debug_assertions /\ cmd = "command_jobs_detail"
    THEN /\ Exit(EXIT_CODE_PANIC)
         /\ out' = Append(out, Line("stderr", "Short option names must be unique for each argument"))
         /\ UNCHANGED selector
    ELSE IF parsed = None
    THEN /\ Exit(EXIT_CODE_INVALID_INPUT)
         /\ out' = Append(out, Line("stderr", "error: Invalid value"))
         /\ UNCHANGED selector
    ELSE /\ pc' = "create_client"
         /\ selector' = Unwrap(parsed)
         /\ UNCHANGED <<out, exitCode>>

CliParse ==
    /\ pc = "cli_parse"
    /\ steps' = Append(steps, "cli_parse")
    /\ CliParsed(CASE cmd = "command_jobs_list" -> JobType_from_str(args.job_type)
                   [] cmd = "command_stats_get_stats" -> GetStatsType_from_str(args.stat_type)
                   [] OTHER -> Some(""))
    /\ UNCHANGED <<build, result, cmd, args, env_token, client, requests, response, bodyRead>>

\* the control characters U+0000..U+001F and U+007F
ControlChars ==
    {"U+0000", "U+0001", "U+0002", "U+0003", "U+0004", "U+0005", "U+0006", "U+0007", "U+0008",
     "\t", "\n", "U+000B", "\f", "\r", "U+000E", "U+000F", "U+0010", "U+0011", "U+0012",
     "U+0013", "U+0014", "U+0015", "U+0016", "U+0017", "U+0018", "U+0019", "U+001A", "U+001B",
     "U+001C", "U+001D", "U+001E", "U+001F", "U+007F"}

\* HeaderValue::from_str: every byte is 32 or more and not 127, or is a tab
ValidHeaderValue(token) ==
    \A i \in 1..Len(token) : token[i] \notin ControlChars \ {"\t"}

ClientWith(token) ==
    IF token = None
    THEN /\ Exit(EXIT_CODE_INVALID_INPUT)
         /\ out' = Append(out, Line("stderr", "No API token detected"))
         /\ UNCHANGED client
    ELSE IF ~ValidHeaderValue(Unwrap(token))
    THEN /\ Exit(EXIT_CODE_PANIC)
         /\ out' = Append(out, Line("stderr", "called Result::unwrap() on an Err value: InvalidHeaderValue"))
         /\ UNCHANGED client
    ELSE /\ pc' = "dispatch"
         /\ client' = Some(<<"Bearer", Unwrap(token)>>)
         /\ UNCHANGED <<out, exitCode>>

\* create_cdn77_client with the environment looked at first
create_cdn77_client_env_first ==
    /\ pc = "create_client"
    /\ steps' = Append(steps, "create_client")
    /\ ClientWith(IF IsSome(env_token) THEN env_token ELSE args.api_token)
    /\ UNCHANGED <<build, result, cmd, args, env_token, selector, requests, response, bodyRead>>

create_cdn77_client ==
    /\ pc = "create_client"
    /\ steps' = Append(steps, "create_client")
    /\ ClientWith(IF IsSome(args.api_token) THEN args.api_token ELSE env_token)
    /\ UNCHANGED <<build, result, cmd, args, env_token, selector, requests, response, bodyRead>>

\* the match on cli_opts.command in main
Dispatch ==
    /\ pc = "dispatch"
    /\ steps' = Append(steps, "dispatch")
    /\ IF cmd \in MainCommands
       THEN /\ pc' = "handler"
            /\ UNCHANGED <<out, exitCode>>
       ELSE /\ Exit(EXIT_CODE_PANIC)
            /\ out' = Append(out, Line("stderr", "Origin isn't implemented yet!"))
    /\ UNCHANGED <<build, result, cmd, args, env_token, selector, client, requests, response, bodyRead>>

Prepares(r) ==
    /\ out' = out \o r.prints
    /\ IF r.kind = "exit"
       THEN Exit(r.code)
       ELSE /\ pc' = "send"
            /\ UNCHANGED exitCode

\* the handler up to the point where the request is built
Prepare ==
    /\ pc = "handler"
    /\ steps' = Append(steps, "prepare")
    /\ Prepares(HandlerPrepare(cmd, args, selector))
    /\ UNCHANGED <<build, result, cmd, args, env_token, selector, client, requests, response, bodyRead>>

\* Sends with the request sent again after the first answer
Sends_twice(r) ==
    /\ requests' = requests \o <<r.request, r.request>>
    /\ \/ /\ Exit(EXIT_CODE_API_UNEXPECTED_ERROR)
          /\ out' = Append(out, Line("stderr", r.sendErr))
          /\ UNCHANGED response
       \/ /\ \E resp \in Responses : response' = Some(resp)
          /\ pc' = "match"
          /\ UNCHANGED <<out, exitCode>>

\* Sends with a transport failure handed on as an answer to interpret
Sends_failure_interpreted(r) ==
    /\ requests' = Append(requests, r.request)
    /\ \/ /\ response' = None
          /\ out' = Append(out, Line("stderr", r.sendErr))
          /\ Exit(EXIT_CODE_API_EXPECTED_ERROR)
       \/ /\ \E resp \in Responses : response' = Some(resp)
          /\ pc' = "match"
          /\ UNCHANGED <<out, exitCode>>

Sends(r) ==
    /\ requests' = Append(requests, r.request)
    /\ \/ /\ Exit(EXIT_CODE_API_UNEXPECTED_ERROR)
          /\ out' = Append(out, Line("stderr", r.sendErr))
          /\ UNCHANGED response
       \/ /\ \E resp \in Responses : response' = Some(resp)
          /\ pc' = "match"
          /\ UNCHANGED <<out, exitCode>>

\* request.send().await and the match on its result
Send ==
    /\ pc = "send"
    /\ steps' = Append(steps, "send")
    /\ Sends(HandlerPrepare(cmd, args, selector))
    /\ UNCHANGED <<build, result, cmd, args, env_token, selector, client, bodyRead>>

\* what an arm that prints and leaves does; shared by Match and Default
RunArm(arm, bodyText) ==
    CASE arm.kind = "return" ->
            /\ out' = Append(out, Line(arm.stream, arm.msg))
            /\ pc' = "returned"
            /\ UNCHANGED <<exitCode, bodyRead>>
      [] arm.kind = "exit" ->
            /\ out' = Append(out, Line(arm.stream, arm.msg))
            /\ Exit(arm.code)
            /\ UNCHANGED bodyRead
      [] arm.kind = "exit_body" ->
            /\ bodyRead' = TRUE
            /\ out' = out \o <<Line(arm.stream, arm.msg), Line(arm.stream, bodyText)>>
            /\ Exit(arm.code)

Matches(arm) ==
    CASE arm.kind = "decode" ->
            /\ pc' = "decode"
            /\ UNCHANGED <<out, exitCode, bodyRead>>
      [] arm.kind = "default" ->
            /\ pc' = "default"
            /\ UNCHANGED <<out, exitCode, bodyRead>>
      [] OTHER -> RunArm(arm, read_body_or_return_default_error_text(Unwrap(response).body))

\* match response.status() in the handler
Match ==
    /\ pc = "match"
    /\ steps' = Append(steps, "match")
    /\ Matches(HandlerStatus(cmd, Unwrap(response).status))
    /\ UNCHANGED <<build, result, cmd, args, env_token, selector, client, requests, response>>

Decodes(arm) ==
    IF ~BodyDecodes(Unwrap(response).body)
    THEN /\ out' = Append(out, Line("stderr", arm.errMsg))
         /\ Exit(arm.code)
    ELSE IF cmd = "command_billing_get_credit_balance"
            /\ Unwrap(response).body = "expiry_out_of_range"
    THEN /\ out' = Append(out, Line("stderr", "invalid or out-of-range datetime"))
         /\ Exit(EXIT_CODE_PANIC)
    ELSE /\ out' = Append(out, Line("stdout", arm.msg))
         /\ pc' = "returned"
         /\ UNCHANGED exitCode

\* response.json::<T>().await and the match on its result
Decode ==
    /\ pc = "decode"
    /\ steps' = Append(steps, "decode")
    /\ bodyRead' = TRUE
    /\ Decodes(HandlerStatus(cmd, Unwrap(response).status))
    /\ UNCHANGED <<build, result, cmd, args, env_token, selector, client, requests, response>>

\* the call of handle_default_response_status_codes from the `_` arm
Default ==
    /\ pc = "default"
    /\ steps' = Append(steps, "default")
    /\ RunArm(handle_default_response_status_codes(Unwrap(response).status),
              IF Unwrap(response).body = "unreadable" THEN "FAILED TO READ RESPONSE, EMPTY?"
              ELSE "response body")
    /\ UNCHANGED <<build, result, cmd, args, env_token, selector, client, requests, response>>

\* the handler has returned: main runs on to its end, or into the panic that
\* follows the statistics match; a direct caller just continues
Return ==
    /\ pc = "returned"
    /\ steps' = Append(steps, "return")
    /\ IF cmd \in DirectHandlers
       THEN /\ pc' = "done"
            /\ UNCHANGED <<out, exitCode>>
       ELSE IF cmd \in StatisticsCommands
       THEN /\ out' = Append(out, Line("stderr", "Statistic isn't implemented yet!"))
            /\ Exit(EXIT_CODE_PANIC)
       ELSE /\ Exit(EXIT_CODE_SUCCESS)
            /\ UNCHANGED out
    /\ UNCHANGED <<build, result, cmd, args, env_token, selector, client, requests, response, bodyRead>>

Next ==
    \/ CliParse
    \/ create_cdn77_client
    \/ Dispatch
    \/ Prepare
    \/ Send
    \/ Match
    \/ Decode
    \/ Default
    \/ Return

Spec == Init /\ [][Next]_vars

(***************************************************************************)
(* The pure functions on their own: a call with an input from a bounded    *)
(* set, and the value it returns (or the panic it ends in).                *)
(***************************************************************************)
MaxIdLen == 4

IdChars == {"0", "1", ",", " ", "\n", "x", "+"}
IdStrings == SeqsUpTo(IdChars, MaxIdLen) \cup {OverflowingId, <<"0", "0">> \o OverflowingId}

InitFn ==
    /\ pc = "call"
    /\ build = [debug_assertions |-> FALSE, chrono_max_year |-> 262142]
    /\ env_token = None
    /\ client = None
    /\ requests = <<>>
    /\ response = None
    /\ bodyRead = FALSE
    /\ out = <<>>
    /\ exitCode = None
    /\ steps = <<>>
    /\ result = None
    /\ \/ /\ cmd = "parse_resource_ids_optional"
          /\ args \in Vary(DefaultArgs, "resource_ids", {None} \cup {Some(str) : str \in IdStrings})
          /\ selector = ""
       \/ /\ cmd = "GetStatsType_from_str"
          /\ args \in Vary(DefaultArgs, "stat_type", StatTypeInputs)
          /\ selector = ""
       \/ /\ cmd = "GetStatsType_fmt"
          /\ args = DefaultArgs
          /\ selector \in GetStatsTypes
       \/ /\ cmd = "JobType_from_str"
          /\ args \in Vary(DefaultArgs, "job_type", JobTypeInputs)
          /\ selector = ""
       \/ /\ cmd = "JobTypeSegment"
          /\ args = DefaultArgs
          /\ selector \in JobTypes

Returns(value, panicked) ==
    /\ result' = Some(value)
    /\ pc' = IF panicked THEN "panicked" ELSE "done"
    /\ UNCHANGED <<build, cmd, args, env_token, selector, client, requests, response, bodyRead, out,
                   exitCode>>

Call_parse_resource_ids_optional ==
    /\ pc = "call"
    /\ cmd = "parse_resource_ids_optional"
    /\ steps' = Append(steps, "parse_resource_ids_optional")
    /\ Returns(parse_resource_ids_optional(args.resource_ids),
               parse_resource_ids_optional(args.resource_ids).panicked)

\* a string parsed, and the value it gave rendered again
GetStatsTypeRendered(parsed) ==
    [parsed |-> parsed,
     rendered |-> IF parsed = None THEN None ELSE Some(GetStatsType_fmt(Unwrap(parsed)))]

JobTypeRendered(parsed) ==
    [parsed |-> parsed,
     rendered |-> IF parsed = None THEN None ELSE Some(JobTypeSegment(Unwrap(parsed)))]

Call_GetStatsType_from_str ==
    /\ pc = "call"
    /\ cmd = "GetStatsType_from_str"
    /\ steps' = Append(steps, "GetStatsType_from_str")
    /\ Returns(GetStatsTypeRendered(GetStatsType_from_str(args.stat_type)), FALSE)

\* a value rendered, and the string it gave parsed again
Call_GetStatsType_fmt ==
    /\ pc = "call"
    /\ cmd = "GetStatsType_fmt"
    /\ steps' = Append(steps, "GetStatsType_fmt")
    /\ Returns([rendered |-> Some(GetStatsType_fmt(selector)),
                parsed |-> GetStatsType_from_str(GetStatsType_fmt(selector))], FALSE)

Call_JobType_from_str ==
    /\ pc = "call"
    /\ cmd = "JobType_from_str"
    /\ steps' = Append(steps, "JobType_from_str")
    /\ Returns(JobTypeRendered(JobType_from_str(args.job_type)), FALSE)

Call_JobTypeSegment ==
    /\ pc = "call"
    /\ cmd = "JobTypeSegment"
    /\ steps' = Append(steps, "JobTypeSegment")
    /\ Returns([rendered |-> Some(JobTypeSegment(selector)),
                parsed |-> JobType_from_str(JobTypeSegment(selector))], FALSE)

NextFn ==
    \/ Call_parse_resource_ids_optional
    \/ Call_GetStatsType_from_str
    \/ Call_GetStatsType_fmt
    \/ Call_JobType_from_str
    \/ Call_JobTypeSegment

SpecFn == InitFn /\ [][NextFn]_vars


(***************************************************************************)
(* Properties                                                              *)
(***************************************************************************)
\* the step has been taken in this execution
Did(step) == \E i \in 1..Len(steps) : steps[i] = step

\* the line has been printed in this execution
Printed(text) == \E i \in 1..Len(out) : out[i].text = text

Exited == pc = "exited"
ExitedWith(code) == pc = "exited" /\ exitCode = Some(code)

\* a response has arrived and the handler's match on its status has run
Routed(status) == response # None /\ Unwrap(response).status = status /\ Did("match")

\* the handlers whose code is in the source tree (command_jobs_purge is not)
JobHandlers ==
    {"command_jobs_list", "command_jobs_detail", "command_jobs_prefetch", "command_jobs_purge_all"}

PlanHandlers ==
    {"command_billing_get_credit_balance", "command_storage_list", "command_storage_detail"}

MutationHandlers == {"command_jobs_prefetch", "command_jobs_purge_all"}

\* the status codes each command has an arm of its own for, as the interface
\* description lists them
BespokeCodes(c) ==
    CASE c \in PlanHandlers -> {200, 404}
      [] c = "command_jobs_list" -> {200}
      [] c = "command_jobs_detail" -> {200, 404}
      [] c \in {"command_jobs_prefetch", "command_jobs_purge"} -> {202, 404}
      [] c = "command_jobs_purge_all" -> {202, 403, 404}
      [] c \in StatisticsCommands -> {200, 404}
      [] OTHER -> {}

PurgeAllDisabled == "Purging all files is disabled for resource"
Default403 == "Got 403/forbidden. Please check your credentials or the API operation args."
Default404 == "The requested resource was not found. Please validate your args."

\* C1: the shared interpreter runs only for a status code the command has no
\* arm of its own for; a 403 answer to purge-all prints the "purging all
\* files is disabled" line and exits with 3, never the default 403 line.
C1_BespokeRuleFirst ==
    /\ (pc = "default" \/ Did("default")) => Unwrap(response).status \notin BespokeCodes(cmd)
    /\ (cmd = "command_jobs_purge_all" /\ Routed(403)) =>
          /\ ExitedWith(EXIT_CODE_API_EXPECTED_ERROR)
          /\ Printed(PurgeAllDisabled)
          /\ ~Printed(Default403)
          /\ ~Did("default")

C1_Witness ==
    /\ cmd = "command_jobs_purge_all" /\ Routed(403)
    /\ ExitedWith(EXIT_CODE_API_EXPECTED_ERROR) /\ Printed(PurgeAllDisabled)

\* the exit code the default table gives a status code
DefaultTableCode(status) ==
    IF status \in {401, 403, 404} THEN EXIT_CODE_API_EXPECTED_ERROR
    ELSE EXIT_CODE_API_UNEXPECTED_ERROR

\* C2: once the default interpreter has run the process has exited, with 3 for
\* 401, 403 and 404 and with 4 for 405, 422 and any other code; control never
\* comes back to the handler.
C2_DefaultAlwaysExits ==
    Did("default") =>
        /\ ExitedWith(DefaultTableCode(Unwrap(response).status))
        /\ ~Did("return") /\ ~Did("decode")

C2_Witness ==
    /\ Did("default") /\ Unwrap(response).status = 404
    /\ ExitedWith(EXIT_CODE_API_EXPECTED_ERROR)

\* C3: a 404 answer to credit-balance, storage list or storage detail prints the
\* "plan not active" line, does not reach the default interpreter, and the
\* process ends with exit code 0.
C3_PlanNotActiveExitsZero ==
    (cmd \in PlanHandlers /\ Routed(404)) =>
        /\ Printed(PlanNotActive)
        /\ ~Did("default")
        /\ pc = "returned" \/ ExitedWith(EXIT_CODE_SUCCESS)

C3_Witness ==
    /\ cmd = "command_storage_detail" /\ Routed(404)
    /\ Printed(PlanNotActive) /\ ExitedWith(EXIT_CODE_SUCCESS)

\* C4 as stated: a 404 answer to any job or statistics command is handled by
\* the command itself, which exits with 3.
C4_Original ==
    (cmd \in JobHandlers \cup StatisticsCommands /\ Routed(404)) =>
        /\ ExitedWith(EXIT_CODE_API_EXPECTED_ERROR)
        /\ ~Did("default")

\* C4 (amended): a 404 answer to any job or statistics command ends the process
\* with exit code 3.  Job detail, prefetch, purge-all and the statistics
\* commands do so in an arm of their own; job list has no 404 arm and the
\* default interpreter prints its "not found" line and exits.
C4_NotFoundExitsThree ==
    (cmd \in JobHandlers \cup StatisticsCommands /\ Routed(404)) =>
        IF cmd = "command_jobs_list"
        THEN \/ pc = "default"
             \/ Did("default") /\ Printed(Default404) /\ ExitedWith(EXIT_CODE_API_EXPECTED_ERROR)
        ELSE /\ ExitedWith(EXIT_CODE_API_EXPECTED_ERROR)
             /\ ~Did("default")
             /\ ~Printed(Default404)
             /\ cmd \in StatisticsCommands <=> bodyRead

C4_Witness ==
    /\ cmd = "command_jobs_list" /\ Routed(404)
    /\ Did("default") /\ ExitedWith(EXIT_CODE_API_EXPECTED_ERROR)

\* C5 as stated: in every handler a 200 response goes to the decoder and never
\* to the default interpreter.
C5_Original ==
    (cmd \in JobHandlers \cup PlanHandlers \cup StatisticsCommands /\ Routed(200)) =>
        /\ pc = "decode" \/ Did("decode")
        /\ ~Did("default")

\* C5 (amended): in the handlers whose success status is 200 (credit balance,
\* storage list and detail, job list and detail, every statistics command) a
\* 200 response goes to the decoder and never to the default interpreter; in
\* prefetch and purge-all, whose success status is 202, a 200 response is
\* delegated to the default interpreter, which exits with 4.
C5_OkGoesToDecoder ==
    (cmd \in JobHandlers \cup PlanHandlers \cup StatisticsCommands /\ Routed(200)) =>
        IF cmd \in MutationHandlers
        THEN /\ ~Did("decode")
             /\ pc = "default" \/ (Did("default") /\ ExitedWith(EXIT_CODE_API_UNEXPECTED_ERROR))
        ELSE /\ pc = "decode" \/ Did("decode")
             /\ ~Did("default")

C5_Witness ==
    /\ cmd = "command_jobs_list" /\ Routed(200) /\ Did("decode")

\* C6: on prefetch and purge-all a 202 response goes to the decoder, and when
\* the body decodes the job record is printed and the process ends with no
\* error exit; on the other endpoints 202 goes to the default interpreter.
C6_AcceptedOnMutations ==
    (cmd \in JobHandlers \cup PlanHandlers \cup StatisticsCommands /\ Routed(202)) =>
        IF cmd \in MutationHandlers
        THEN /\ pc = "decode" \/ Did("decode")
             /\ ~Did("default")
             /\ (Did("decode") /\ BodyDecodes(Unwrap(response).body)) =>
                   /\ Printed("Successfully executed")
                   /\ pc = "returned" \/ ExitedWith(EXIT_CODE_SUCCESS)
        ELSE /\ ~Did("decode")
             /\ pc = "default" \/ Did("default")

C6_Witness ==
    /\ cmd = "command_jobs_prefetch" /\ Routed(202) /\ Did("decode")
    /\ Printed("Successfully executed") /\ ExitedWith(EXIT_CODE_SUCCESS)

\* the status each command decodes the body for
SuccessStatus(c) ==
    IF c \in {"command_jobs_prefetch", "command_jobs_purge", "command_jobs_purge_all"} THEN 202 ELSE 200

SuccessLines ==
    {"Current balance", "Found storage locations", "ID= Location=", "Found jobs", "Found Job",
     "Successfully executed", "pretty-printed JSON", "Percentile", "Sum"}

\* C7: when the response has the command's success status and the body does not
\* decode, the process exits with 4 and no success line is printed.
C7_DecodeFailureExitsFour ==
    (Routed(SuccessStatus(cmd)) /\ ~BodyDecodes(Unwrap(response).body)) =>
        /\ pc = "decode" \/ ExitedWith(EXIT_CODE_API_UNEXPECTED_ERROR)
        /\ \A line \in SuccessLines : ~Printed(line)

C7_Witness ==
    /\ cmd = "command_stats_get_stats" /\ Routed(200) /\ Unwrap(response).body = "malformed"
    /\ Did("decode") /\ ExitedWith(EXIT_CODE_API_UNEXPECTED_ERROR)

\* C8: for every command main dispatches, a response with the success status
\* and a body that decodes ends the process with exit code 0.
C8_SuccessExitsZero ==
    (cmd \in MainCommands /\ Routed(SuccessStatus(cmd)) /\ BodyDecodes(Unwrap(response).body) /\ Exited) =>
        exitCode = Some(EXIT_CODE_SUCCESS)

\* C9: prefetch with an empty paths string exits with 2 and sends no request.
C9_EmptyPathsNoRequest ==
    (cmd = "command_jobs_prefetch" /\ args.paths = <<>>) =>
        /\ requests = <<>>
        /\ ~Did("send")
        /\ Did("prepare") => ExitedWith(EXIT_CODE_INVALID_INPUT)

C9_Witness ==
    /\ cmd = "command_jobs_prefetch" /\ args.paths = <<>> /\ Did("prepare")
    /\ ExitedWith(EXIT_CODE_INVALID_INPUT) /\ requests = <<>>

\* the string holds nothing but commas and whitespace
OnlyCommasAndWhitespace(s) == \A i \in 1..Len(s) : s[i] = "," \/ IsWhitespace(s[i])

\* C10: a prefetch paths string that is empty or holds only commas and
\* whitespace is rejected with exit code 2 before any request; a single valid
\* path gives a request with a one-element list.
C10_BlankPathsRejected ==
    /\ (cmd = "command_jobs_prefetch" /\ OnlyCommasAndWhitespace(args.paths) /\ Did("prepare")) =>
          /\ ExitedWith(EXIT_CODE_INVALID_INPUT)
          /\ requests = <<>>
    /\ (cmd = "command_jobs_prefetch" /\ args.paths = <<"a">> /\ Did("send")) =>
          Unwrap(requests[1].body).paths = <<<<"a">>>>


\* The integers of an id list read character by character: within a segment,
\* whitespace, then an optional '+' and digits, then whitespace.  None when a
\* segment holds anything else, or digits of a number above u64::MAX.
CloseSegment(mode, cur, acc) ==
    CASE mode = "lead" -> Some(acc)
      [] mode = "plus" -> None
      [] ExceedsU64(cur) -> None
      [] OTHER -> Some(Append(acc, DigitsValue(cur, 0)))

RECURSIVE ScanIdList(_, _, _, _)

AfterComma(s, closed) == IF closed = None THEN None ELSE ScanIdList(s, "lead", <<>>, Unwrap(closed))

ScanIdList(s, mode, cur, acc) ==
    IF s = <<>> THEN CloseSegment(mode, cur, acc)
    ELSE CASE Head(s) = "," -> AfterComma(Tail(s), CloseSegment(mode, cur, acc))
           [] IsWhitespace(Head(s)) ->
                CASE mode = "lead" -> ScanIdList(Tail(s), "lead", cur, acc)
                  [] mode = "plus" -> None
                  [] OTHER -> ScanIdList(Tail(s), "trail", cur, acc)
           [] IsDigit(Head(s)) ->
                CASE mode \in {"lead", "plus"} -> ScanIdList(Tail(s), "num", <<Head(s)>>, acc)
                  [] mode = "num" -> ScanIdList(Tail(s), "num", Append(cur, Head(s)), acc)
                  [] OTHER -> None
           [] Head(s) = "+" -> IF mode = "lead" THEN ScanIdList(Tail(s), "plus", cur, acc) ELSE None
           [] OTHER -> None

ExpectedIds(s) == ScanIdList(s, "lead", <<>>, <<>>)

IdsAsExpected(r, expected) ==
    IF expected = None
    THEN r.panicked /\ r.value = None
    ELSE ~r.panicked /\ r.value = expected

\* C11: for an id list made of integers, commas, surrounding whitespace and
\* empty segments the function returns those integers in order, duplicates
\* kept; an absent input returns absent; a segment that is no integer makes
\* the call end without a list.
C11_IdsInOrder ==
    (cmd = "parse_resource_ids_optional" /\ result # None) =>
        IF args.resource_ids = None
        THEN Unwrap(result) = [panicked |-> FALSE, value |-> None]
        ELSE IdsAsExpected(Unwrap(result), ExpectedIds(Unwrap(args.resource_ids)))

C11_Witness ==
    /\ cmd = "parse_resource_ids_optional"
    /\ args.resource_ids = Some(<<" ", "1", ",", "1">>)
    /\ result = Some([panicked |-> FALSE, value |-> Some(<<1, 1>>)])

\* C12: a statistics command whose resource-id list holds an unparseable id
\* ends with the invalid-input exit code 2, and sends no request.
C12_MalformedIdExitsTwo ==
    (/\ cmd \in StatisticsCommands
     /\ parse_resource_ids_optional(args.resource_ids).panicked
     /\ IsSome(parse_date_time_or_exit(args.from))
     /\ IsSome(parse_date_time_or_exit(args.to))
     /\ Did("prepare")) =>
        /\ ExitedWith(EXIT_CODE_INVALID_INPUT)
        /\ requests = <<>>

\* the sum handlers look at the stat type before they look at the dates
StatTypeRejected ==
    \/ cmd = "command_stats_sum_by_resource" /\ args.stat_type \notin SUM_BY_RESOURCE_TYPE
    \/ cmd = "command_stats_sum_by_data_center" /\ args.stat_type \notin SUM_BY_DATA_CENTER_TYPE
    \/ cmd = "command_stats_sum" /\ args.stat_type \notin SUM_TYPE

\* a statistics handler has run as far as the parsing of its dates
DatesReached == cmd \in StatisticsCommands /\ Did("prepare") /\ ~StatTypeRejected

\* the outcomes of the parsing in this execution: `to` is parsed once `from`
\* has parsed
FromFailed == DatesReached /\ parse_date_time_or_exit(args.from) = None
ToFailed ==
    /\ DatesReached
    /\ IsSome(parse_date_time_or_exit(args.from))
    /\ parse_date_time_or_exit(args.to) = None
BothParsed ==
    /\ DatesReached
    /\ IsSome(parse_date_time_or_exit(args.from))
    /\ IsSome(parse_date_time_or_exit(args.to))

DateRejected(message) ==
    /\ Printed(message)
    /\ ExitedWith(EXIT_CODE_INVALID_INPUT)
    /\ requests = <<>>
    /\ ~Did("send")

\* C13: in every statistics handler, when the parsing of `from` or of `to`
\* fails, the message the handler passed is printed and the process ends with
\* exit code 2 with no request built or sent; a request is sent only in an
\* execution where both have parsed.  (A sum handler that turns the stat type
\* away prints "Invalid stat type" and exits with 2 before it parses a date.)
C13_BadDateExitsTwo ==
    /\ FromFailed => DateRejected("Start date/time is not in a correct format")
    /\ ToFailed => DateRejected("End date/time is not in a correct format")
    /\ (cmd \in StatisticsCommands /\ requests # <<>>) => BothParsed
    /\ (cmd \in StatisticsCommands /\ Did("prepare") /\ StatTypeRejected) =>
            /\ out = <<Line("stderr", "Invalid stat type")>>
            /\ ExitedWith(EXIT_CODE_INVALID_INPUT)
            /\ requests = <<>>

C13_Witness ==
    /\ cmd = "command_stats_bandwidth_95th_percentile"
    /\ Did("dispatch")
    /\ ToFailed
    /\ parse_resource_ids_optional(args.resource_ids).panicked
    /\ DateRejected("End date/time is not in a correct format")

\* the handler's checks of its arguments have passed: it builds its request
ValidationPassed == Did("prepare") /\ HandlerPrepare(cmd, args, selector).kind = "send"

\* C14: an execution sends at most one request; it sends exactly one, the one
\* the handler built, once the handler's checks have passed, and none when
\* they have not; no status code and no decode outcome leads to a second.
C14_OneRequest ==
    /\ Len(requests) <= 1
    /\ (ValidationPassed /\ pc # "send") =>
            /\ requests = <<HandlerPrepare(cmd, args, selector).request>>
            /\ Len(SelectSeq(steps, LAMBDA st : st = "send")) = 1
    /\ (Did("prepare") /\ HandlerPrepare(cmd, args, selector).kind = "exit") =>
            requests = <<>> /\ ~Did("send")
    /\ ~Did("prepare") => requests = <<>>

C14_Witness ==
    /\ cmd = "command_jobs_prefetch"
    /\ Routed(202)
    /\ Unwrap(response).body = "malformed"
    /\ Did("decode")
    /\ ExitedWith(EXIT_CODE_API_UNEXPECTED_ERROR)
    /\ Len(requests) = 1

\* C15: when the request gets no answer the handler prints its diagnostic on
\* stderr and the process ends with exit code 4: one request, no retry, no
\* match on a status and no reading or decoding of a body.
C15_TransportFailureFatal ==
    (Did("send") /\ response = None) =>
        /\ ExitedWith(EXIT_CODE_API_UNEXPECTED_ERROR)
        /\ out[Len(out)] = Line("stderr", HandlerPrepare(cmd, args, selector).sendErr)
        /\ Len(requests) = 1
        /\ steps[Len(steps)] = "send"
        /\ ~Did("match") /\ ~Did("decode") /\ ~Did("default")
        /\ bodyRead = FALSE

C15_Witness ==
    /\ cmd = "command_jobs_list"
    /\ Did("send")
    /\ response = None
    /\ ExitedWith(EXIT_CODE_API_UNEXPECTED_ERROR)
    /\ Printed(HandlerPrepare(cmd, args, selector).sendErr)

\* C16: the stat-type and the job-type selectors go through one canonical
\* string encoding: a value rendered and parsed again is the same value, and
\* a string the parser accepts is rendered again unchanged.
C16_RoundTrip ==
    /\ (cmd \in {"GetStatsType_fmt", "JobTypeSegment"} /\ result # None) =>
            Unwrap(result).parsed = Some(selector)
    /\ (cmd = "GetStatsType_from_str" /\ result # None /\ Unwrap(result).parsed # None) =>
            Unwrap(result).rendered = Some(args.stat_type)
    /\ (cmd = "JobType_from_str" /\ result # None /\ Unwrap(result).parsed # None) =>
            Unwrap(result).rendered = Some(args.job_type)

\* the token main has to use: the flag's when there is one, else the variable's
TokenOfChoice == IF IsSome(args.api_token) THEN args.api_token ELSE env_token

\* C17: the client carries the token of the flag when the flag is given, and
\* the token of CDN77_API_TOKEN otherwise; with neither, the process ends
\* with exit code 2 before any handler runs and before any request; no
\* handler started from main runs without a client.
C17_TokenPrecedence ==
    /\ (Did("create_client") /\ IsSome(TokenOfChoice) /\ ValidHeaderValue(Unwrap(TokenOfChoice))) =>
            client = Some(<<"Bearer", Unwrap(TokenOfChoice)>>)
    /\ (Did("create_client") /\ TokenOfChoice = None) =>
            /\ ExitedWith(EXIT_CODE_INVALID_INPUT)
            /\ out[Len(out)] = Line("stderr", "No API token detected")
            /\ client = None
            /\ ~Did("dispatch") /\ ~Did("prepare") /\ ~Did("send")
            /\ requests = <<>>
    /\ (cmd \notin DirectHandlers /\ Did("dispatch")) => Did("create_client") /\ client # None

C17_Witness ==
    /\ args.api_token = Some(FlagToken)
    /\ env_token = Some(EnvToken)
    /\ client = Some(<<"Bearer", FlagToken>>)
    /\ Did("send")

\* the handlers whose 404 arm prints the text of the body
ErrorDetailHandlers == StatisticsCommands \cup {"command_jobs_purge"}

\* where a handler goes from its match, told from the status code alone
RouteOf(c, status) ==
    CASE status = SuccessStatus(c) -> "decode"
      [] status \notin BespokeCodes(c) -> "default"
      [] c \in PlanHandlers -> "returned"
      [] OTHER -> "exited"

\* C18: the match of a handler goes where the status code alone says, and the
\* body has not been read when it does; the body is read only by the decoder
\* of the success status, by the 404 arm that prints the error detail, or by
\* the default interpreter for a code outside 401/403/404/405/422; the
\* 401/403/405/422 answers and purge-all's own 403 arm never read it.
C18_BodyReadAfterRouting ==
    /\ bodyRead => Did("match")
    /\ (Did("match") /\ steps[Len(steps)] = "match") =>
            /\ pc = RouteOf(cmd, Unwrap(response).status)
            /\ bodyRead => (Unwrap(response).status = 404 /\ cmd \in ErrorDetailHandlers)
    /\ bodyRead =>
            \/ Did("decode") /\ Unwrap(response).status = SuccessStatus(cmd)
            \/ Unwrap(response).status = 404 /\ cmd \in ErrorDetailHandlers /\ ~Did("default")
            \/ Did("default") /\ Unwrap(response).status \notin {401, 403, 404, 405, 422}
    /\ (Did("match") /\ Unwrap(response).status \in {401, 403, 405, 422}) => ~bodyRead

C18_Witness ==
    /\ cmd = "command_jobs_purge_all"
    /\ Routed(403)
    /\ Unwrap(response).body = "valid"
    /\ ExitedWith(EXIT_CODE_API_EXPECTED_ERROR)
    /\ ~Did("default")
    /\ ~bodyRead

\* both dates and the id list of a statistics handler have parsed in this
\* execution
RangeParsed == BothParsed /\ ~parse_resource_ids_optional(args.resource_ids).panicked

\* one request has gone out, with the epoch seconds of both dates in its body
RangeSent ==
    /\ Len(requests) = 1
    /\ Unwrap(requests[1].body).from = Timestamp(Unwrap(parse_date_time_or_exit(args.from)))
    /\ Unwrap(requests[1].body).to = Timestamp(Unwrap(parse_date_time_or_exit(args.to)))
    /\ ~ExitedWith(EXIT_CODE_INVALID_INPUT)

\* C19: the statistics handlers do not look at the order of the range: once
\* both dates and the id lists have parsed, one request with both epoch
\* values is sent, also when `from` is later than or equal to `to`, and no
\* invalid-input exit is taken.
C19_RangeOrderNotValidated == (RangeParsed /\ pc # "send") => RangeSent

C19_Witness ==
    /\ cmd = "command_stats_bandwidth_95th_percentile"
    /\ Did("dispatch")
    /\ args.from = DateB
    /\ args.to = DateA
    /\ Did("send")
    /\ Unwrap(requests[1].body).from = 1641119400
    /\ Unwrap(requests[1].body).to = 1640995200

====
